---- MODULE Spec2Model ----
(***************************************************************************)
(* Model of src/app/src/assets/icons/split-icons.py: the sheet splitter.   *)
(*                                                                         *)
(* Text is modelled as a sequence of tokens.  A token is one of            *)
(*   "<svg"     the opening tag text                                       *)
(*   "</svg>"   the closing tag text                                       *)
(*   "\n"       the line separator                                         *)
(*   "x"        any other text (it holds no tag, no comment, no newline)   *)
(*   a member of MarkerNames: the comment  <!-- NAME -->  naming NAME.     *)
(* A path is the sequence <<directory>> \o filename, a filename being the  *)
(* token sequence the marker pattern captured.                             *)
(***************************************************************************)
EXTENDS Integers, Sequences, FiniteSets, TLC

\* Bounds of the model.
MaxLines == 4
MaxRuns == 2

\* Python's None for current_filename (a captured filename is never empty).
None == <<>>

NL == "\n"
OpenTag == "<svg"
CloseTag == "</svg>"
MarkerNames == {"a.svg", "b.svg", "sheets.svg"}

\* Path(__file__).parent, and Path(__file__).parent / 'sheets.svg'
output_dir == <<"icons">>
input_file == output_dir \o <<"sheets.svg">>

\* output_dir / current_filename
output_path(filename) == output_dir \o filename

(***************************************************************************)
(* Pure helpers of the scan.                                               *)
(***************************************************************************)
Positions(line, S) == {k \in 1..Len(line) : line[k] \in S}
Min(S) == CHOOSE k \in S : \A j \in S : k <= j
Max(S) == CHOOSE k \in S : \A j \in S : j <= k

\* '<svg' in line, '</svg>' in line
HasOpen(line) == Positions(line, {OpenTag}) # {}
HasClose(line) == Positions(line, {CloseTag}) # {}

\* line.index('<svg')
svg_start(line) == Min(Positions(line, {OpenTag}))

\* Mutant: the whole line is kept, marker comment included.
FromOpen_whole(line) == line

\* line[svg_start:]
FromOpen(line) == SubSeq(line, svg_start(line), Len(line))

\* re.search(r'<!--\s*(.+\.svg)\s*-->', line).group(1), or None without a
\* match.  The search starts at the leftmost comment opener and `.+` is
\* greedy, so the group runs from the first marker's name through the last
\* marker's name on the line, with everything in between.
filename_match(line) ==
    LET ms == Positions(line, MarkerNames)
    IN  IF ms = {} THEN None ELSE SubSeq(line, Min(ms), Max(ms))

\* content.split('\n'): the pieces between consecutive separators, one more
\* piece than there are separators.
split(text) ==
    LET nls == Positions(text, {NL})
        Cut(k) == IF k = 0 THEN 0
                  ELSE IF k > Cardinality(nls) THEN Len(text) + 1
                  ELSE CHOOSE p \in nls :
                           Cardinality({q \in nls : q < p}) = k - 1
    IN  [k \in 1..(Cardinality(nls) + 1) |->
            SubSeq(text, Cut(k - 1) + 1, Cut(k) - 1)]

\* '\n'.join(current_svg)
RECURSIVE join(_)
join(ls) ==
    IF ls = <<>> THEN <<>>
    ELSE IF Len(ls) = 1 THEN ls[1]
    ELSE ls[1] \o <<NL>> \o join(Tail(ls))

(***************************************************************************)
(* The source texts the model runs on: up to MaxLines lines, each one of   *)
(* the representative lines below.                                         *)
(***************************************************************************)
LineKinds ==
    { <<>>,                                      \* empty line
      <<"a.svg">>,                               \* marker alone
      <<"b.svg">>,
      <<"<svg", "x">>,                           \* opening line
      <<"x", "</svg>">>,                         \* closing line
      <<"<svg", "x", "</svg>">>,                 \* whole block on a line
      <<"a.svg", "<svg", "x">>,                  \* marker and opening tag
      <<"sheets.svg", "<svg", "x", "</svg>">>,   \* marker and whole block
      <<"b.svg", "<svg", "</svg>", "x">>,        \* ... with text after it
      <<"</svg>", "a.svg", "<svg", "b.svg">>,    \* tags and markers mixed
      <<"b.svg", "</svg>">> }                    \* marker and closing tag

\* The line sequences of a source text: 1..MaxLines lines.
LineSeqs == UNION {[1..n -> LineKinds] : n \in 1..MaxLines}

(***************************************************************************)
(* State.                                                                  *)
(***************************************************************************)
VARIABLES
    fs,                 \* the directory: path -> file content
    pc,                 \* "start", "scan", "done" or "crashed"
    run,                \* number of the current run of the script
    lines,              \* content.split('\n'), once read
    i,                  \* number of lines the for loop has finished
    current_filename,
    current_svg,
    in_svg,
    trace,              \* this run's file writes, stdout lines and error
    prev                \* fs and trace at the end of the previous run

vars == <<fs, pc, run, lines, i, current_filename, current_svg, in_svg,
          trace, prev>>

scanner == <<current_filename, current_svg, in_svg>>

Event(kind, name, data, at) ==
    [kind |-> kind, name |-> name, data |-> data, at |-> at]

NoPrev == [fs |-> <<>>, trace |-> <<>>]

Init ==
    /\ \E ls \in LineSeqs : fs = (input_file :> join(ls))
    /\ pc = "start"
    /\ run = 1
    /\ lines = <<>>
    /\ i = 0
    /\ current_filename = None
    /\ current_svg = <<>>
    /\ in_svg = FALSE
    /\ trace = <<>>
    /\ prev = NoPrev

(***************************************************************************)
(* Lines 10-18: read the sheet, split it, initialise the scanner.          *)
(***************************************************************************)
ReadSource ==
    /\ pc = "start"
    /\ input_file \in DOMAIN fs
    /\ pc' = "scan"
    /\ lines' = split(fs[input_file])
    /\ i' = 0
    /\ current_filename' = None
    /\ current_svg' = <<>>
    /\ in_svg' = FALSE
    /\ UNCHANGED <<fs, run, trace, prev>>

\* Mutant: the read error is swallowed and the scan runs on empty content.
ReadFails_swallowed ==
    /\ pc = "start"
    /\ pc' = "scan"
    /\ lines' = <<<<>>>>
    /\ trace' = Append(trace, Event("error", input_file, <<>>, 0))
    /\ UNCHANGED <<fs, run, i, current_filename, current_svg, in_svg, prev>>

\* open() or read() raises: the script dies at line 10/11.
ReadFails ==
    /\ pc = "start"
    /\ pc' = "crashed"
    /\ trace' = Append(trace, Event("error", input_file, <<>>, 0))
    /\ UNCHANGED <<fs, run, lines, i, current_filename, current_svg, in_svg,
                   prev>>

(***************************************************************************)
(* open(output_path, 'w') + f.write(svg_content).                          *)
(***************************************************************************)
\* Mutant: the file is opened for appending.
WriteFile_append(dir, path, data) ==
    [p \in DOMAIN dir \cup {path} |->
        IF p # path THEN dir[p]
        ELSE IF path \in DOMAIN dir THEN dir[path] \o data ELSE data]

\* The file after a successful write: mode 'w' replaces what was there.
WriteFile(dir, path, data) ==
    [p \in DOMAIN dir \cup {path} |-> IF p = path THEN data ELSE dir[p]]

\* The files a failing write can leave: open() raised (nothing touched), or
\* the file was created/truncated and only a prefix of the data reached it.
FailedWrites(dir, path, data) ==
    {dir} \cup {WriteFile(dir, path, SubSeq(data, 1, k)) : k \in 0..Len(data)}

\* Mutant: the confirmation is printed before the file is written.
Finalize_printfirst(filename, svg, svg_content) ==
    \/ /\ fs' = [p \in DOMAIN fs \cup {output_path(filename)} |->
                    IF p = output_path(filename) THEN svg_content ELSE fs[p]]
       /\ trace' = trace \o
             << Event("Created", filename, <<>>, i + 1),
                Event("write", output_path(filename), svg_content, i + 1) >>
       /\ current_filename' = None
       /\ current_svg' = <<>>
       /\ in_svg' = FALSE
       /\ i' = i + 1
       /\ UNCHANGED <<pc, run, lines, prev>>
    \/ /\ fs' = fs
       /\ trace' = trace \o
             << Event("Created", filename, <<>>, i + 1),
                Event("error", output_path(filename), <<>>, i + 1) >>
       /\ pc' = "crashed"
       /\ current_filename' = filename
       /\ current_svg' = svg
       /\ in_svg' = FALSE
       /\ UNCHANGED <<run, lines, i, prev>>

\* Mutant: the pending filename survives the write.
Finalize_keepname(filename, svg, svg_content) ==
    \/ /\ fs' = [p \in DOMAIN fs \cup {output_path(filename)} |->
                    IF p = output_path(filename) THEN svg_content ELSE fs[p]]
       /\ trace' = trace \o
             << Event("write", output_path(filename), svg_content, i + 1),
                Event("Created", filename, <<>>, i + 1) >>
       /\ current_filename' = filename
       /\ current_svg' = <<>>
       /\ in_svg' = FALSE
       /\ i' = i + 1
       /\ UNCHANGED <<pc, run, lines, prev>>
    \/ /\ fs' = fs
       /\ trace' = Append(trace,
                          Event("error", output_path(filename), <<>>, i + 1))
       /\ pc' = "crashed"
       /\ current_filename' = filename
       /\ current_svg' = svg
       /\ in_svg' = FALSE
       /\ UNCHANGED <<run, lines, i, prev>>

\* Mutant: the buffer survives the write.
Finalize_keepbuffer(filename, svg, svg_content) ==
    \/ /\ fs' = [p \in DOMAIN fs \cup {output_path(filename)} |->
                    IF p = output_path(filename) THEN svg_content ELSE fs[p]]
       /\ trace' = trace \o
             << Event("write", output_path(filename), svg_content, i + 1),
                Event("Created", filename, <<>>, i + 1) >>
       /\ current_filename' = None
       /\ current_svg' = svg
       /\ in_svg' = FALSE
       /\ i' = i + 1
       /\ UNCHANGED <<pc, run, lines, prev>>
    \/ /\ fs' = fs
       /\ trace' = Append(trace,
                          Event("error", output_path(filename), <<>>, i + 1))
       /\ pc' = "crashed"
       /\ current_filename' = filename
       /\ current_svg' = svg
       /\ in_svg' = FALSE
       /\ UNCHANGED <<run, lines, i, prev>>

\* The finalize sequence shared by lines 33-40, 49-56 and 65-78, with
\* in_svg already reset and current_svg holding `svg`.
Finalize(filename, svg, svg_content) ==
    \/ /\ fs' = WriteFile(fs, output_path(filename), svg_content)
       /\ trace' = trace \o
             << Event("write", output_path(filename), svg_content, i + 1),
                Event("Created", filename, <<>>, i + 1) >>
       /\ current_filename' = None
       /\ current_svg' = <<>>
       /\ in_svg' = FALSE
       /\ i' = i + 1
       /\ UNCHANGED <<pc, run, lines, prev>>
    \/ /\ fs' \in FailedWrites(fs, output_path(filename), svg_content)
       /\ trace' = Append(trace,
                          Event("error", output_path(filename), <<>>, i + 1))
       /\ pc' = "crashed"
       /\ current_filename' = filename
       /\ current_svg' = svg
       /\ in_svg' = FALSE
       /\ UNCHANGED <<run, lines, i, prev>>

(***************************************************************************)
(* One iteration of the for loop (lines 20-78), by the branch it takes.    *)
(***************************************************************************)
Scanning == pc = "scan" /\ i < Len(lines)
line == lines[i + 1]

\* Mutant: a marker counts only while no block is open.
IsMarkerLine_outside(l) == filename_match(l) # None /\ ~in_svg

\* Line 23: the marker branch is taken.
IsMarkerLine(l) == filename_match(l) # None

\* Mutant: the guard forgets the pending filename.
BlockStart_nofilename(l) == HasOpen(l) /\ ~in_svg

\* Mutant: the guard forgets that a block is open.
BlockStart_restart(l) == HasOpen(l) /\ current_filename # None

\* Line 44: the block-start guard.
BlockStart(l) == HasOpen(l) /\ current_filename # None /\ ~in_svg

\* Mutant: a marker line without an opening tag keeps a filename that is
\* already pending.
ScanMarkerLine_keepfirst ==
    /\ Scanning
    /\ IsMarkerLine(line)
    /\ IF HasOpen(line)
       THEN IF HasClose(line)
            THEN Finalize(filename_match(line), <<FromOpen(line)>>,
                          FromOpen(line))
            ELSE /\ current_filename' = filename_match(line)
                 /\ in_svg' = TRUE
                 /\ current_svg' = <<FromOpen(line)>>
                 /\ i' = i + 1
                 /\ UNCHANGED <<fs, pc, run, lines, trace, prev>>
       ELSE /\ current_filename' =
                  IF current_filename = None THEN filename_match(line)
                  ELSE current_filename
            /\ i' = i + 1
            /\ UNCHANGED <<fs, pc, run, lines, current_svg, in_svg, trace,
                           prev>>

\* Lines 22-41.
ScanMarkerLine ==
    /\ Scanning
    /\ IsMarkerLine(line)
    /\ IF HasOpen(line)
       THEN IF HasClose(line)
            THEN Finalize(filename_match(line), <<FromOpen(line)>>,
                          FromOpen(line))
            ELSE /\ current_filename' = filename_match(line)
                 /\ in_svg' = TRUE
                 /\ current_svg' = <<FromOpen(line)>>
                 /\ i' = i + 1
                 /\ UNCHANGED <<fs, pc, run, lines, trace, prev>>
       ELSE /\ current_filename' = filename_match(line)
            /\ i' = i + 1
            /\ UNCHANGED <<fs, pc, run, lines, current_svg, in_svg, trace,
                           prev>>

\* Lines 44-57.
ScanOpenLine ==
    /\ Scanning
    /\ ~IsMarkerLine(line)
    /\ BlockStart(line)
    /\ IF HasClose(line)
       THEN Finalize(current_filename, <<line>>, join(<<line>>))
       ELSE /\ in_svg' = TRUE
            /\ current_svg' = <<line>>
            /\ i' = i + 1
            /\ UNCHANGED <<fs, pc, run, lines, current_filename, trace, prev>>

\* Lines 60-78.
ScanCollectLine ==
    /\ Scanning
    /\ ~IsMarkerLine(line)
    /\ ~BlockStart(line)
    /\ in_svg
    /\ IF HasClose(line)
       THEN Finalize(current_filename, Append(current_svg, line),
                     join(Append(current_svg, line)))
       ELSE /\ current_svg' = Append(current_svg, line)
            /\ i' = i + 1
            /\ UNCHANGED <<fs, pc, run, lines, current_filename, in_svg,
                           trace, prev>>

\* No branch is taken: the iteration falls through.
ScanIgnoreLine ==
    /\ Scanning
    /\ ~IsMarkerLine(line)
    /\ ~BlockStart(line)
    /\ ~in_svg
    /\ i' = i + 1
    /\ UNCHANGED <<fs, pc, run, lines, current_filename, current_svg, in_svg,
                   trace, prev>>

\* Mutant: the completion message does not wait for the last line.
Complete_early ==
    /\ pc = "scan"
    /\ pc' = "done"
    /\ trace' = Append(trace, Event("Completed", None, <<>>, 0))
    /\ UNCHANGED <<fs, run, lines, i, current_filename, current_svg, in_svg,
                   prev>>

\* Line 80: the loop is exhausted, the completion message is printed.
Complete ==
    /\ pc = "scan"
    /\ i = Len(lines)
    /\ pc' = "done"
    /\ trace' = Append(trace, Event("Completed", None, <<>>, 0))
    /\ UNCHANGED <<fs, run, lines, i, current_filename, current_svg, in_svg,
                   prev>>

\* The script is run again after a completed run.
Rerun ==
    /\ pc = "done"
    /\ run < MaxRuns
    /\ run' = run + 1
    /\ prev' = [fs |-> fs, trace |-> trace]
    /\ pc' = "start"
    /\ lines' = <<>>
    /\ i' = 0
    /\ current_filename' = None
    /\ current_svg' = <<>>
    /\ in_svg' = FALSE
    /\ trace' = <<>>
    /\ UNCHANGED fs

ScanLine ==
    ScanMarkerLine \/ ScanOpenLine \/ ScanCollectLine \/ ScanIgnoreLine

Next ==
    \/ ReadSource
    \/ ReadFails
    \/ ScanMarkerLine
    \/ ScanOpenLine
    \/ ScanCollectLine
    \/ ScanIgnoreLine
    \/ Complete

\* One run of the script.
Spec == Init /\ [][Next]_vars

\* One run on a sheet of fewer than MaxLines lines, which the interpreter
\* carries on as long as a statement is left to execute.
LiveInit == Init /\ Len(split(fs[input_file])) < MaxLines
LiveSpec == LiveInit /\ [][Next]_vars /\ WF_vars(Next)

NextTwice == Next \/ Rerun

\* The script run up to MaxRuns times in succession.
SpecTwice == Init /\ [][NextTwice]_vars

TypeOK ==
    /\ pc \in {"start", "scan", "done", "crashed"}
    /\ run \in 1..MaxRuns
    /\ i \in 0..Len(lines)
    /\ in_svg \in BOOLEAN

(***************************************************************************)
(* Observations on a run.                                                  *)
(***************************************************************************)
OfKind(tr, kind) == SelectSeq(tr, LAMBDA e : e.kind = kind)
Writes(tr) == OfKind(tr, "write")
Errors(tr) == OfKind(tr, "error")

\* What was written where, without the line numbers.
Written(tr) ==
    [k \in 1..Len(Writes(tr)) |->
        [name |-> Writes(tr)[k].name, data |-> Writes(tr)[k].data]]

IsPlain(l) == ~IsMarkerLine(l) /\ ~HasOpen(l) /\ ~HasClose(l)

(***************************************************************************)
(* Well-formed sheets: marker+block pairs, told apart by a reference       *)
(* reading of the text that is independent of the scanner.                 *)
(*   pair ::= marker-and-block line                                        *)
(*         |  marker-and-opening line, plain lines, closing line           *)
(*         |  marker line, plain lines, block line                         *)
(*         |  marker line, plain lines, opening line, plain lines,         *)
(*            closing line                                                 *)
(* with plain lines allowed between pairs.  A block starts with its        *)
(* opening tag and ends with its closing tag.                              *)
(***************************************************************************)
AllX(l) == \A k \in 1..Len(l) : l[k] = "x"
WOpen(l) == Len(l) >= 1 /\ l[1] = OpenTag /\ AllX(Tail(l))
WClose(l) == Len(l) >= 1 /\ l[Len(l)] = CloseTag
                /\ AllX(SubSeq(l, 1, Len(l) - 1))
WBlock(l) == Len(l) >= 2 /\ l[1] = OpenTag /\ l[Len(l)] = CloseTag
                /\ AllX(SubSeq(l, 2, Len(l) - 1))
WMarker(l) == Len(l) = 1 /\ l[1] \in MarkerNames
WMarkerOpen(l) == Len(l) >= 2 /\ l[1] \in MarkerNames /\ WOpen(Tail(l))
WMarkerBlock(l) == Len(l) >= 3 /\ l[1] \in MarkerNames /\ WBlock(Tail(l))

\* The reading after line k-1, in mode "idle", "marked" or "open", with the
\* marker name and the block lines read so far: the pairs of ls[k..], or
\* a pair named "ill-formed" in the result when ls is not well formed.
RECURSIVE PairsFrom(_, _, _, _, _)
PairsFrom(ls, k, mode, name, buf) ==
    LET l == ls[k]
        Pair(b) == [name |-> name, data |-> join(b)]
        Bad == <<[name |-> "ill-formed", data |-> <<>>]>>
    IN  IF k > Len(ls) THEN (IF mode = "idle" THEN <<>> ELSE Bad)
        ELSE IF mode = "idle" THEN
            IF AllX(l) THEN PairsFrom(ls, k + 1, "idle", None, <<>>)
            ELSE IF WMarker(l) THEN PairsFrom(ls, k + 1, "marked", l[1], <<>>)
            ELSE IF WMarkerOpen(l)
                 THEN PairsFrom(ls, k + 1, "open", l[1], <<Tail(l)>>)
            ELSE IF WMarkerBlock(l)
                 THEN <<[name |-> l[1], data |-> Tail(l)]>>
                          \o PairsFrom(ls, k + 1, "idle", None, <<>>)
            ELSE Bad
        ELSE IF mode = "marked" THEN
            IF AllX(l) THEN PairsFrom(ls, k + 1, "marked", name, <<>>)
            ELSE IF WOpen(l) THEN PairsFrom(ls, k + 1, "open", name, <<l>>)
            ELSE IF WBlock(l)
                 THEN <<Pair(<<l>>)>>
                          \o PairsFrom(ls, k + 1, "idle", None, <<>>)
            ELSE Bad
        ELSE
            IF AllX(l) THEN PairsFrom(ls, k + 1, "open", name, Append(buf, l))
            ELSE IF WClose(l)
                 THEN <<Pair(Append(buf, l))>>
                          \o PairsFrom(ls, k + 1, "idle", None, <<>>)
            ELSE Bad

Pairs(ls) == PairsFrom(ls, 1, "idle", None, <<>>)

WellFormed(ls) ==
    /\ \A k \in 1..Len(Pairs(ls)) : Pairs(ls)[k].name # "ill-formed"
    /\ \A j, k \in 1..Len(Pairs(ls)) :
           j # k => Pairs(ls)[j].name # Pairs(ls)[k].name

\* The writes a well-formed sheet asks for.
Expected(ls) ==
    [k \in 1..Len(Pairs(ls)) |->
        [name |-> output_path(<<Pairs(ls)[k].name>>),
         data |-> Pairs(ls)[k].data]]

(***************************************************************************)
(* C1.  On a sheet made of N marker+block pairs with pairwise distinct     *)
(* marker filenames, a run whose I/O all succeeds performs exactly N file  *)
(* writes, one per pair, in order, each to the path of the pair's marker   *)
(* and each with the pair's text from opening tag through closing tag; the *)
(* N files hold that text when the run is done.                            *)
(***************************************************************************)
C1_PairsWritten ==
    (pc = "done" /\ WellFormed(lines)) =>
        /\ Written(trace) = Expected(lines)
        /\ \A k \in 1..Len(Expected(lines)) :
              /\ Expected(lines)[k].name \in DOMAIN fs
              /\ fs[Expected(lines)[k].name] = Expected(lines)[k].data

\* A finished run on a sheet of two pairs, one block on the marker's line
\* and one spanning several lines.
C1_Witness ==
    /\ pc = "done"
    /\ WellFormed(lines)
    /\ Len(Pairs(lines)) = 2
    /\ \E k \in 1..2 : Positions(Pairs(lines)[k].data, {NL}) # {}
    /\ \E k \in 1..2 : Positions(Pairs(lines)[k].data, {NL}) = {}
    /\ Len(Writes(trace)) = 2

(***************************************************************************)
(* C2.  When a marker line is followed on a later line by an opening-tag   *)
(* line and the block's closing tag comes on a still later line, the file  *)
(* written for that marker holds exactly the lines from the opening-tag    *)
(* line through the closing-tag line, joined by newlines, whatever the     *)
(* lines in between contain.                                               *)
(* Here m is a marker line met after complete pairs only, o the first      *)
(* opening-tag line after it and c the first line after o with a closing   *)
(* tag, which holds no marker.                                             *)
(***************************************************************************)
MultiLineCase(m, o, c) ==
    /\ m < o /\ o < c
    /\ WellFormed(SubSeq(lines, 1, m - 1))
    /\ IsMarkerLine(lines[m]) /\ ~HasOpen(lines[m])
    /\ \A j \in (m + 1)..(o - 1) :
           ~HasOpen(lines[j]) /\ ~IsMarkerLine(lines[j])
    /\ HasOpen(lines[o]) /\ ~HasClose(lines[o]) /\ ~IsMarkerLine(lines[o])
    /\ \A j \in (o + 1)..(c - 1) : ~HasClose(lines[j])
    /\ HasClose(lines[c]) /\ ~IsMarkerLine(lines[c])

C2_MultiLineBlockExact ==
    pc = "done" =>
        \A m, o, c \in 1..Len(lines) :
            MultiLineCase(m, o, c) =>
                \E k \in 1..Len(Writes(trace)) :
                    Writes(trace)[k] =
                        Event("write",
                              output_path(filename_match(lines[m])),
                              join(SubSeq(lines, o, c)), c)

(***************************************************************************)
(* C3.  For a line holding a marker comment, an opening tag and a closing  *)
(* tag, the file written for that line holds only the text from the        *)
(* opening tag through the closing tag: no marker comment, nothing after   *)
(* the closing tag; and it is written only when the closing tag comes      *)
(* after the opening tag.                                                  *)
(***************************************************************************)
ClosesAfterOpen(l) == {k \in Positions(l, {CloseTag}) : k > svg_start(l)}

C3_SameLineTagToTag ==
    \A k \in 1..Len(Writes(trace)) :
        LET e == Writes(trace)[k]
            l == lines[e.at]
        IN  (IsMarkerLine(l) /\ HasOpen(l) /\ HasClose(l)) =>
                /\ ClosesAfterOpen(l) # {}
                /\ e.data = SubSeq(l, svg_start(l), Max(ClosesAfterOpen(l)))
                /\ Positions(e.data, MarkerNames) = {}

(***************************************************************************)
(* C4.  Processing a line without a marker while no block is open, which   *)
(* has no opening tag or is met with no filename pending, writes no file,  *)
(* prints nothing and leaves current_filename, current_svg and in_svg      *)
(* unchanged: the scan goes on to the next line from the same state.       *)
(***************************************************************************)
IgnoredCase(l) ==
    /\ ~IsMarkerLine(l)
    /\ ~in_svg
    /\ ~HasOpen(l) \/ current_filename = None

C4_IgnoredLineNoEffect ==
    [][(Scanning /\ IgnoredCase(lines[i + 1])) =>
          /\ current_filename' = current_filename
          /\ current_svg' = current_svg
          /\ in_svg' = in_svg
          /\ fs' = fs
          /\ trace' = trace
          /\ pc' = pc
          /\ i' = i + 1]_vars

\* A finished run whose first line is an opening tag without a marker,
\* which wrote nothing for it and wrote a later marked block.
C4_Witness ==
    /\ pc = "done"
    /\ Len(lines) >= 3
    /\ HasOpen(lines[1]) /\ ~IsMarkerLine(lines[1])
    /\ Len(Writes(trace)) = 1
    /\ Writes(trace)[1].at = 3
    /\ Writes(trace)[1].data = lines[3]

(***************************************************************************)
(* C5.  The 'Created: <name>' messages are the file writes, one for one    *)
(* and in the same order, which is the order in which the blocks close in  *)
(* the text: each message directly follows the write of the file it names, *)
(* on the same line of the scan.                                           *)
(***************************************************************************)
C5_CreatedFollowsWrite ==
    /\ \A k \in 1..Len(trace) :
          /\ trace[k].kind = "write" =>
                /\ k < Len(trace)
                /\ trace[k + 1].kind = "Created"
                /\ output_path(trace[k + 1].name) = trace[k].name
                /\ trace[k + 1].at = trace[k].at
          /\ trace[k].kind = "Created" =>
                /\ k > 1
                /\ trace[k - 1].kind = "write"
    /\ \A j, k \in 1..Len(Writes(trace)) :
          j < k => Writes(trace)[j].at < Writes(trace)[k].at
    /\ \A k \in 1..Len(Writes(trace)) : Writes(trace)[k].at <= i + 1
    /\ Len(OfKind(trace, "Created")) = Len(Writes(trace))

\* Two blocks closed on different lines, two messages.
C5_Witness ==
    /\ pc = "done"
    /\ Len(OfKind(trace, "Created")) = 2
    /\ OfKind(trace, "Created")[1].name # OfKind(trace, "Created")[2].name
    /\ OfKind(trace, "Created")[1].at + 1 < OfKind(trace, "Created")[2].at

(***************************************************************************)
(* C6.  Running the splitter twice in succession on the same source: after *)
(* the second run every file has the content it had after the first run,   *)
(* and the second run performs the same sequence of writes as the first,   *)
(* for every marker filename the source can contain.                       *)
(***************************************************************************)
SameAsPreviousRun ==
    /\ fs = prev.fs
    /\ Written(trace) = Written(prev.trace)

C6_Idempotent ==
    (run >= 2 /\ pc = "done") => SameAsPreviousRun

\* The previous run wrote no file onto the sheet itself.
SourceKept ==
    \A k \in 1..Len(Writes(prev.trace)) :
        Writes(prev.trace)[k].name # input_file

\* C6 as amended: the same, provided the first run did not write onto the
\* source file (no marker names sheets.svg, the sheet in the output
\* directory).
C6_IdempotentSourceKept ==
    (run >= 2 /\ pc = "done" /\ SourceKept) => SameAsPreviousRun

\* A second run that rewrote two files the first run had written.
C6_Witness ==
    /\ run = 2
    /\ pc = "done"
    /\ SourceKept
    /\ Len(Writes(trace)) = 2
    /\ Writes(trace)[1].name # Writes(trace)[2].name
    /\ \A k \in 1..2 : Writes(trace)[k].name \in DOMAIN prev.fs

(***************************************************************************)
(* C7.  If writing an output file fails the run stops at that line: no     *)
(* later line is processed, no 'Created' message is printed for the failed *)
(* file, the completion message is not printed, and every file written     *)
(* earlier in the run keeps the content it was given.                      *)
(***************************************************************************)
LastEvent == trace[Len(trace)]
WriteFailed ==
    trace # <<>> /\ LastEvent.kind = "error" /\ LastEvent.at > 0

\* The latest write of the run to each path in `paths` is what the path
\* holds.
EarlierFilesKept(paths) ==
    \A k \in 1..Len(Writes(trace)) :
        LET e == Writes(trace)[k]
        IN  (/\ e.name \in paths
             /\ \A j \in (k + 1)..Len(Writes(trace)) :
                    Writes(trace)[j].name # e.name)
                => (e.name \in DOMAIN fs /\ fs[e.name] = e.data)

StoppedAtFailedLine ==
    /\ pc = "crashed"
    /\ ~ENABLED Next
    /\ LastEvent.at = i + 1
    /\ \A k \in 1..Len(trace) :
          /\ trace[k].kind # "Completed"
          /\ trace[k].kind = "Created" => trace[k].at < LastEvent.at
          /\ trace[k].kind = "error" => k = Len(trace)

AllPaths == {trace[k].name : k \in 1..Len(trace)}

C7_WriteFailureStops ==
    (\E k \in 1..Len(trace) : trace[k].kind = "error" /\ trace[k].at > 0)
        => (WriteFailed /\ StoppedAtFailedLine /\ EarlierFilesKept(AllPaths))

\* C7 as amended: ... and every file written earlier in the run, other
\* than the file whose write failed, keeps the content it was given (the
\* failed file is left untouched, empty or with part of the new content).
C7_WriteFailureStopsOthersKept ==
    (\E k \in 1..Len(trace) : trace[k].kind = "error" /\ trace[k].at > 0)
        => (/\ WriteFailed
            /\ StoppedAtFailedLine
            /\ EarlierFilesKept(AllPaths \ {LastEvent.name}))

\* A write failed after another file had been written, and left its own
\* file created but incomplete, with a line still to scan.
C7_Witness ==
    /\ WriteFailed
    /\ Len(Writes(trace)) >= 1
    /\ Writes(trace)[1].name # LastEvent.name
    /\ LastEvent.name \in DOMAIN fs
    /\ i + 1 < Len(lines)

(***************************************************************************)
(* C8.  If reading the source file fails the run aborts before the scan    *)
(* starts: no file is written, and neither a 'Created' message nor the     *)
(* completion message is printed.                                          *)
(***************************************************************************)
ReadFailed ==
    \E k \in 1..Len(trace) : trace[k].kind = "error" /\ trace[k].at = 0

C8_ReadFailureAborts ==
    /\ [](ReadFailed =>
            /\ pc = "crashed"
            /\ ~ENABLED Next
            /\ Len(trace) = 1
            /\ lines = <<>> /\ i = 0
            /\ DOMAIN fs = {input_file})
    /\ [][ReadFailed' => fs' = fs]_vars

C8_Witness ==
    /\ ReadFailed
    /\ pc = "crashed"
    /\ Positions(fs[input_file], MarkerNames) # {}

(***************************************************************************)
(* C9.  A marker that is never followed by an opening tag, and a block     *)
(* that is opened but never closed before the end of input, cause no file  *)
(* write and no error: at end of input the pending filename and buffered   *)
(* lines are dropped and the run completes with the completion message.    *)
(***************************************************************************)
NoOpenFrom(m) == \A j \in m..Len(lines) : ~HasOpen(lines[j])
NoCloseFrom(o) == \A j \in o..Len(lines) : ~HasClose(lines[j])
NoWriteFrom(m) ==
    \A k \in 1..Len(Writes(trace)) : Writes(trace)[k].at < m

C9_UnmatchedAbandoned ==
    /\ (pc = "scan" /\ i = Len(lines)) => ENABLED Complete
    /\ pc = "done" =>
          /\ Errors(trace) = <<>>
          /\ LastEvent.kind = "Completed"
          /\ Len(trace) = 2 * Len(Writes(trace)) + 1
          /\ \A m \in 1..Len(lines) :
                (IsMarkerLine(lines[m]) /\ NoOpenFrom(m)) => NoWriteFrom(m)
          /\ \A o \in 1..Len(lines) :
                (HasOpen(lines[o]) /\ NoCloseFrom(o)) => NoWriteFrom(o)

(***************************************************************************)
(* C10.  When all I/O succeeds the run terminates: each line is processed  *)
(* once, in source order, and the completion message is printed exactly    *)
(* once, after the last line and after every 'Created' message, whatever   *)
(* the scanner state is then.                                              *)
(* Checked under LiveSpec: the interpreter goes on to the next statement   *)
(* as long as there is one.                                                *)
(***************************************************************************)
C10_Terminates ==
    /\ <>(pc \in {"done", "crashed"})
    /\ [](pc = "crashed" <=> Errors(trace) # <<>>)
    /\ [](pc = "done" <=> OfKind(trace, "Completed") # <<>>)
    /\ [](pc = "done" =>
            /\ i = Len(lines)
            /\ Len(OfKind(trace, "Completed")) = 1
            /\ LastEvent.kind = "Completed")
    /\ [][(pc = "scan" /\ pc' = "scan") => i' = i + 1]_vars
    /\ [][(pc = "scan" /\ pc' # "scan") => i' = i]_vars
    /\ [][pc # "start" => lines' = lines]_vars

\* A finished run that wrote nothing and ended with a block still open.
C10_Witness ==
    /\ pc = "done"
    /\ in_svg
    /\ current_svg # <<>>
    /\ Len(trace) = 1
    /\ Len(lines) >= 3

(***************************************************************************)
(* Scanner state against the lines processed so far.  Lines 1..i have been *)
(* processed whenever the loop is between two lines or past the last one.  *)
(***************************************************************************)
LineDone == pc \in {"scan", "done"}

WriteAt(j) == \E k \in 1..Len(Writes(trace)) : Writes(trace)[k].at = j

\* The last line up to n on which a file was written, 0 if there is none.
LastWriteUpTo(n) == Max({0} \cup {j \in 1..n : WriteAt(j)})

\* The marker lines among lines lo..hi.
MarkerLines(lo, hi) == {m \in lo..hi : IsMarkerLine(lines[m])}

\* Line o holds an opening tag that no closing tag follows in lines o..n.
OpenNotClosed(o, n) ==
    /\ HasOpen(lines[o])
    /\ ClosesAfterOpen(lines[o]) = {}
    /\ \A j \in (o + 1)..n : ~HasClose(lines[j])

\* Line o opens a block that takes a filename: it holds an opening tag and
\* no closing tag, and a marker is on it or on a line before it with no
\* file written from there on.
OpensNamedBlock(o) ==
    /\ HasOpen(lines[o])
    /\ ~HasClose(lines[o])
    /\ \/ IsMarkerLine(lines[o])
       \/ MarkerLines(LastWriteUpTo(o - 1) + 1, o - 1) # {}

\* After lines 1..n a block that takes a filename has been opened and no
\* file has been written since.
BlockOpenAfter(n) ==
    \E o \in 1..n : OpensNamedBlock(o) /\ LastWriteUpTo(n) < o

(***************************************************************************)
(* C11.  After every processed line, in_svg is true if and only if an      *)
(* opening tag has been seen on some processed line whose closing tag has  *)
(* not yet been seen.                                                      *)
(***************************************************************************)
C11_InSvgIffOpenUnclosed ==
    LineDone => (in_svg <=> \E o \in 1..i : OpenNotClosed(o, i))

\* C11 as the code has it: after every processed line, in_svg is true if
\* and only if some processed line opened a block that takes a filename
\* and no file has been written on a later processed line.
C11_InSvgIffNamedBlockUnwritten ==
    LineDone =>
        (in_svg <=> BlockOpenAfter(i))

\* An opening tag without a marker was passed over, a later one opened a
\* block.
C11_Witness ==
    /\ LineDone
    /\ i = 3
    /\ ~IsMarkerLine(lines[1]) /\ OpenNotClosed(1, 1)
    /\ IsMarkerLine(lines[2]) /\ ~HasOpen(lines[2])
    /\ in_svg
    /\ current_svg = <<lines[3]>>

(***************************************************************************)
(* C12.  After every processed line, current_filename is set (not None) if *)
(* and only if some marker line has been processed since the last file     *)
(* write (or since the start of the run if no file has been written yet).  *)
(* A marker line that is written on the spot counts as consumed by that    *)
(* write.                                                                  *)
(***************************************************************************)
C12_FilenameIffMarkerSinceWrite ==
    LineDone =>
        (current_filename # None <=>
            MarkerLines(LastWriteUpTo(i) + 1, i) # {})

\* A filename pending after an earlier file was written.
C12_Witness ==
    /\ LineDone
    /\ Len(Writes(trace)) = 1
    /\ LastWriteUpTo(i) = 2
    /\ i = 4
    /\ MarkerLines(3, 4) = {3}
    /\ current_filename = filename_match(lines[3])

(***************************************************************************)
(* C13.  Immediately after every file write, on each of the three finalize *)
(* paths (marker line with the whole block, opening line with the whole    *)
(* block, closing line of a multi-line block), the scanner state equals    *)
(* the initial state: current_filename is None, current_svg is empty and   *)
(* in_svg is false.                                                        *)
(***************************************************************************)
C13_ResetAfterWrite ==
    [][Len(Writes(trace')) > Len(Writes(trace)) =>
          /\ current_filename' = None
          /\ current_svg' = <<>>
          /\ in_svg' = FALSE
          /\ Writes(trace')[Len(Writes(trace'))].at = i + 1
          /\ \/ IsMarkerLine(line) /\ HasOpen(line) /\ HasClose(line)
             \/ ~IsMarkerLine(line) /\ ~in_svg /\ HasOpen(line)
                   /\ HasClose(line)
             \/ ~IsMarkerLine(line) /\ in_svg /\ HasClose(line)]_vars

\* Just after the second write: the first closed on its opening line, the
\* second on the closing line of a block of two lines.
C13_Witness ==
    /\ i = 4
    /\ Len(Writes(trace)) = 2
    /\ Writes(trace)[1].at = 2
    /\ ~IsMarkerLine(lines[2])
    /\ Writes(trace)[2].at = 4
    /\ ~IsMarkerLine(lines[4]) /\ ~HasOpen(lines[4])
    /\ scanner = <<None, <<>>, FALSE>>

(***************************************************************************)
(* C14.  A new marker is recognized only when no block is currently open:  *)
(* while in_svg is true, processing a line that contains a marker comment  *)
(* does not change current_filename and the line is handled as ordinary    *)
(* block content (appended to the buffer, and closing the block when it    *)
(* holds the closing tag).                                                 *)
(***************************************************************************)
MarkerInBlock == Scanning /\ in_svg /\ filename_match(line) # None

C14_MarkerIgnoredInBlock ==
    [][MarkerInBlock =>
          IF HasClose(line)
          THEN \/ /\ pc' = "scan"
                  /\ Writes(trace') =
                        Append(Writes(trace),
                               Event("write", output_path(current_filename),
                                     join(Append(current_svg, line)), i + 1))
               \/ pc' = "crashed"
          ELSE /\ current_filename' = current_filename
               /\ current_svg' = Append(current_svg, line)
               /\ in_svg' = TRUE]_vars

(***************************************************************************)
(* C15.  When two marker lines are processed with no opening tag between   *)
(* them and no block open, the pending filename becomes the second         *)
(* marker's filename: the next block is written under the second name, no  *)
(* file is written under the first name, and no error or warning is        *)
(* produced.                                                               *)
(* The step: a marker line without an opening tag, met with a filename     *)
(* pending and no block open, replaces the filename and does nothing else. *)
(* The outcome: markers m1 < m2, then the next block o..c with no marker   *)
(* line of its own, is the one write from m1 to c, under the name of m2.   *)
(***************************************************************************)
SecondMarkerStep ==
    /\ Scanning
    /\ ~in_svg
    /\ current_filename # None
    /\ IsMarkerLine(line)
    /\ ~HasOpen(line)

\* The next block after line m: from the first opening tag after m to the
\* first closing tag from there on, <<0, 0>> while lines 1..i hold none.
FirstIn(S) == IF S = {} THEN 0 ELSE Min(S)
NextBlock(m) ==
    LET o == FirstIn({j \in (m + 1)..i : HasOpen(lines[j])})
    IN  IF o = 0 THEN <<0, 0>>
        ELSE <<o, FirstIn({j \in o..i : HasClose(lines[j])})>>

TwoMarkersCase(m1, m2, o, c) ==
    /\ m1 < m2 /\ m2 < o /\ o <= c
    /\ IsMarkerLine(lines[m1])
    /\ IsMarkerLine(lines[m2])
    /\ <<o, c>> = NextBlock(m2)
    /\ \A j \in m1..m2 : ~HasOpen(lines[j])
    /\ \A j \in (m2 + 1)..c : ~IsMarkerLine(lines[j])
    /\ ~BlockOpenAfter(m1 - 1)

C15_SecondMarkerWins ==
    /\ [][SecondMarkerStep =>
             /\ current_filename' = filename_match(line)
             /\ i' = i + 1
             /\ UNCHANGED <<fs, pc, current_svg, in_svg, trace>>]_vars
    /\ [](LineDone =>
            \A m2 \in MarkerLines(2, i) : \A m1 \in MarkerLines(1, m2 - 1) :
                LET o == NextBlock(m2)[1]
                    c == NextBlock(m2)[2]
                IN  TwoMarkersCase(m1, m2, o, c) =>
                        /\ \A j \in m1..(c - 1) : ~WriteAt(j)
                        /\ \E k \in 1..Len(Writes(trace)) :
                              /\ Writes(trace)[k].at = c
                              /\ Writes(trace)[k].name =
                                    output_path(filename_match(lines[m2]))
                              /\ Writes(trace)[k].data =
                                    join(SubSeq(lines, o, c)))

\* Two different markers in a row, then a block: one file, under the
\* second name.
C15_Witness ==
    /\ LineDone
    /\ i = 3
    /\ TwoMarkersCase(1, 2, 3, 3)
    /\ filename_match(lines[1]) # filename_match(lines[2])
    /\ Len(Writes(trace)) = 1
    /\ Writes(trace)[1].name = output_path(filename_match(lines[2]))
    /\ output_path(filename_match(lines[1])) \notin DOMAIN fs

(***************************************************************************)
(* C16.  While a block is open, a line without a marker that contains an   *)
(* opening tag does not start a new block and does not reset the buffer:   *)
(* the line is appended to the buffer, and the block is finalized, with    *)
(* exactly one file write, at the first line without a marker that         *)
(* contains a closing tag.                                                 *)
(* Step by step: a line without a marker met while a block is open is      *)
(* appended; without a closing tag nothing else happens, with one the      *)
(* buffer including that line is written once under the pending filename   *)
(* (or the write fails and the run stops).                                 *)
(***************************************************************************)
ContentLineStep == Scanning /\ in_svg /\ ~IsMarkerLine(line)

C16_NestedOpenAppended ==
    [][ContentLineStep =>
          IF HasClose(line)
          THEN \/ /\ pc' = "scan"
                  /\ in_svg' = FALSE
                  /\ trace' = trace \o
                        << Event("write", output_path(current_filename),
                                 join(Append(current_svg, line)), i + 1),
                           Event("Created", current_filename, <<>>, i + 1) >>
               \/ /\ pc' = "crashed"
                  /\ Writes(trace') = Writes(trace)
                  /\ current_svg' = Append(current_svg, line)
          ELSE /\ current_svg' = Append(current_svg, line)
               /\ in_svg' = TRUE
               /\ current_filename' = current_filename
               /\ UNCHANGED <<fs, pc, trace>>]_vars

\* A block of three lines whose second line holds another opening tag,
\* written once, whole, at its closing line.
C16_Witness ==
    /\ LineDone
    /\ i = 3
    /\ IsMarkerLine(lines[1]) /\ HasOpen(lines[1]) /\ ~HasClose(lines[1])
    /\ ~IsMarkerLine(lines[2]) /\ HasOpen(lines[2]) /\ ~HasClose(lines[2])
    /\ ~IsMarkerLine(lines[3]) /\ HasClose(lines[3])
    /\ Len(Writes(trace)) = 1
    /\ Writes(trace)[1].at = 3
    /\ Writes(trace)[1].data =
          join(<<FromOpen(lines[1]), lines[2], lines[3]>>)

(***************************************************************************)
(* C17.  In every reachable state, in_svg being true implies               *)
(* current_filename is set; hence every file write uses a filename         *)
(* captured from a marker line, namely the filename of the most recent     *)
(* marker line processed at or before the line that closes the block, and  *)
(* no write is ever attempted with a missing filename.                     *)
(***************************************************************************)
\* The writes attempted: those done and the one that failed.
WriteAttempts ==
    SelectSeq(trace, LAMBDA e : \/ e.kind = "write"
                                \/ e.kind = "error" /\ e.at > 0)

C17_BlockHasFilename ==
    /\ in_svg => current_filename # None
    /\ \A k \in 1..Len(WriteAttempts) :
          LET e == WriteAttempts[k]
          IN  /\ MarkerLines(1, e.at) # {}
              /\ e.name # output_path(None)
              /\ e.name =
                    output_path(filename_match(lines[Max(MarkerLines(1, e.at))]))

\* A block opened under one marker and written under a later one.
C17_Witness ==
    /\ LineDone
    /\ i = 3
    /\ Len(Writes(trace)) = 1
    /\ Writes(trace)[1].at = 3
    /\ MarkerLines(1, 3) = {1, 2}
    /\ HasOpen(lines[1])
    /\ filename_match(lines[1]) # filename_match(lines[2])
    /\ Writes(trace)[1].name = output_path(filename_match(lines[2]))

(***************************************************************************)
(* C18.  After every processed line, in_svg being false implies            *)
(* current_svg is empty: no buffered line survives the end of a block or   *)
(* exists before a block starts, so the content of a written file never    *)
(* includes a line processed before its block's opening line.              *)
(* Each written content is an opening line o that comes after the previous *)
(* write, from its tag on when it holds a marker, followed by the lines    *)
(* without a marker from o + 1 to the line of the write.                   *)
(***************************************************************************)
BlockFrom(o, c) ==
    << IF IsMarkerLine(lines[o]) THEN FromOpen(lines[o]) ELSE lines[o] >>
        \o SelectSeq(SubSeq(lines, o + 1, c), LAMBDA l : ~IsMarkerLine(l))

C18_IdleBufferEmpty ==
    LineDone =>
        /\ ~in_svg => current_svg = <<>>
        /\ \A k \in 1..Len(Writes(trace)) :
              LET e == Writes(trace)[k]
              IN  \E o \in (LastWriteUpTo(e.at - 1) + 1)..e.at :
                      /\ HasOpen(lines[o])
                      /\ e.data = join(BlockFrom(o, e.at))

\* Two blocks in a row: the second file holds nothing of the first block.
C18_Witness ==
    /\ LineDone
    /\ i = 3
    /\ ~in_svg
    /\ current_svg = <<>>
    /\ Len(Writes(trace)) = 2
    /\ Writes(trace)[1].at = 2
    /\ HasOpen(lines[1])
    /\ Writes(trace)[1].data = join(BlockFrom(1, 2))
    /\ Writes(trace)[2].at = 3
    /\ IsMarkerLine(lines[3])
    /\ Writes(trace)[2].data = FromOpen(lines[3])

(***************************************************************************)
(* C19.  After any prefix of the input has been processed, the number of   *)
(* file writes performed is at most the number of marker lines processed,  *)
(* and each processed line triggers at most one file write.                *)
(***************************************************************************)
C19_WritesWithinMarkers ==
    /\ LineDone => Len(Writes(trace)) <= Cardinality(MarkerLines(1, i))
    /\ \A k \in 1..Len(Writes(trace)) :
          /\ Writes(trace)[k].at \in 1..Len(lines)
          /\ k <= Cardinality(MarkerLines(1, Writes(trace)[k].at))
          /\ \A j \in 1..Len(Writes(trace)) :
                Writes(trace)[j].at = Writes(trace)[k].at => j = k

\* As many writes as marker lines, with lines in between that wrote
\* nothing.
C19_Witness ==
    /\ pc = "done"
    /\ i = 4
    /\ Len(Writes(trace)) = 2
    /\ Cardinality(MarkerLines(1, 4)) = 2
    /\ Writes(trace)[1].at = 2
    /\ Writes(trace)[2].at = 4

(***************************************************************************)
(* C20.  When a line containing a marker comment is processed while a      *)
(* block is open: current_filename is replaced by that marker's filename;  *)
(* if the line has no opening tag it is not appended to the buffer and the *)
(* block stays open even when the line contains a closing tag; if the line *)
(* has an opening tag the lines buffered so far are discarded and the      *)
(* buffer restarts from that tag.  With both tags on the line the          *)
(* restarted buffer is written at once under the marker's filename.        *)
(***************************************************************************)
C20_MarkerInBlockRenames ==
    [][MarkerInBlock =>
          IF ~HasOpen(line)
          THEN /\ current_filename' = filename_match(line)
               /\ current_svg' = current_svg
               /\ in_svg' = TRUE
               /\ i' = i + 1
               /\ UNCHANGED <<fs, pc, trace>>
          ELSE IF ~HasClose(line)
          THEN /\ current_filename' = filename_match(line)
               /\ current_svg' = <<FromOpen(line)>>
               /\ in_svg' = TRUE
               /\ i' = i + 1
               /\ UNCHANGED <<fs, pc, trace>>
          ELSE \/ /\ pc' = "scan"
                  /\ trace' = trace \o
                        << Event("write", output_path(filename_match(line)),
                                 FromOpen(line), i + 1),
                           Event("Created", filename_match(line), <<>>,
                                 i + 1) >>
               \/ /\ pc' = "crashed"
                  /\ Writes(trace') = Writes(trace)
                  /\ current_filename' = filename_match(line)
                  /\ current_svg' = <<FromOpen(line)>>]_vars

\* A marker line with a closing tag met inside a block: the block is
\* renamed and stays open, the line is not buffered.
C20_Witness ==
    /\ LineDone
    /\ i = 2
    /\ MarkerLines(1, 2) = {1, 2}
    /\ HasClose(lines[2]) /\ ~HasOpen(lines[2])
    /\ filename_match(lines[1]) # filename_match(lines[2])
    /\ in_svg
    /\ current_filename = filename_match(lines[2])
    /\ current_svg = <<FromOpen(lines[1])>>
    /\ trace = <<>>

====
